---- MODULE Spec2Model ----
(***************************************************************************)
(* Model of tools/gen_ice_ddp.py: the encoder of a minimal ICE DDP package *)
(* (build_package and its helpers) and the validator validate_package.     *)
(*                                                                         *)
(* A byte string is a sequence of integers in 0..255.  Python positions    *)
(* are 0-based, sequence indices here are 1-based; Slice(d, a, b) is the   *)
(* Python slice d[a:b].  The module is modelled as run by an interpreter   *)
(* that accepts line 239 (a backslash inside an f-string expression,       *)
(* Python 3.12 and later).                                                 *)
(***************************************************************************)
EXTENDS Integers, Sequences, FiniteSets, TLC

VARIABLES
    pc,              \* position: "main", "built", "L182" ... "L232", "done"
    data,            \* main's package, then the argument of validate_package
    fmt_ver, seg_count, meta_off, ice_off,
    meta_seg_type, meta_seg_size, ice_seg_type, ice_seg_size,
    buf_start, section_count, data_end, sect_type, sect_offset, sect_size,
    meta_addr, meta_ver, meta_name,
    outcome,         \* "none", "accepted", "AssertionError", "struct.error",
                     \* "UnicodeDecodeError"
    failure,         \* the message of the failed assert, "" otherwise
    failLine,        \* the source line that raised, 0 otherwise
    args,            \* the arguments of a direct call of pack_seg_hdr
    hdr              \* the value that call returned

header == <<fmt_ver, seg_count, meta_off, ice_off>>
segs   == <<meta_seg_type, meta_seg_size, ice_seg_type, ice_seg_size>>
bufhdr == <<buf_start, section_count, data_end, sect_type, sect_offset, sect_size>>
meta   == <<meta_addr, meta_ver, meta_name>>
result == <<outcome, failure, failLine>>
direct == <<args, hdr>>
vars   == <<pc, data, header, segs, bufhdr, meta, result, direct>>

(***************************************************************************)
(* Constants of the program.                                               *)
(***************************************************************************)
ICE_PKG_BUF_SIZE == 4096
ICE_PKG_NAME_SIZE == 32
ICE_META_SECT_NAME_SIZE == 28
SEGMENT_TYPE_METADATA == 1
SEGMENT_TYPE_ICE_E810 == 16
ICE_SID_METADATA == 1

\* b"ICE OS Default Package"
PKG_NAME ==
    <<73, 67, 69, 32, 79, 83, 32, 68, 101, 102, 97, 117, 108, 116, 32,
      80, 97, 99, 107, 97, 103, 101>>
\* b"ICE Metadata"
SEG_ID_METADATA == <<73, 67, 69, 32, 77, 101, 116, 97, 100, 97, 116, 97>>
\* b"ICE Configuration Data"
SEG_ID_ICE ==
    <<73, 67, 69, 32, 67, 111, 110, 102, 105, 103, 117, 114, 97, 116, 105,
      111, 110, 32, 68, 97, 116, 97>>

(***************************************************************************)
(* Python bytes and struct primitives.                                     *)
(***************************************************************************)
Min(a, b) == IF a <= b THEN a ELSE b

\* d[a:b] for 0 <= a: both ends are clamped to len(d), never an error
Slice(d, a, b) == SubSeq(d, Min(a, Len(d)) + 1, Min(b, Len(d)))

\* n zero bytes: bytearray(n)
Zeros(n) == [i \in 1..n |-> 0]

\* b.ljust(n, b'\x00'): pads on the right, never shortens
Ljust(b, n) == IF Len(b) >= n THEN b ELSE b \o Zeros(n - Len(b))

\* struct.pack("<I", v) and struct.pack("<H", v)
PackLE32(v) ==
    <<v % 256, (v \div 256) % 256, (v \div 65536) % 256, (v \div 16777216) % 256>>
PackLE16(v) == <<v % 256, (v \div 256) % 256>>

\* struct.unpack("<I", b)[0] and struct.unpack("<H", b)[0], for b of the
\* right length; any other length raises struct.error (see CanUnpack)
UnpackLE32(b) == b[1] + 256 * b[2] + 65536 * b[3] + 16777216 * b[4]
UnpackLE16(b) == b[1] + 256 * b[2]
CanUnpack(b, n) == Len(b) = n

\* buf[off:off+len(b)] = b, for a slice that lies inside buf
PackInto(buf, off, b) ==
    SubSeq(buf, 1, off) \o b \o SubSeq(buf, off + Len(b) + 1, Len(buf))

\* b.startswith(p)
StartsWith(b, p) == Len(b) >= Len(p) /\ SubSeq(b, 1, Len(p)) = p

\* b.rstrip(chars): drops the trailing bytes that are in chars
RECURSIVE Rstrip(_, _)
Rstrip(b, chars) ==
    IF Len(b) > 0 /\ b[Len(b)] \in chars
    THEN Rstrip(SubSeq(b, 1, Len(b) - 1), chars)
    ELSE b

\* whether b.decode() (strict UTF-8) succeeds
IsCont(x) == x >= 128 /\ x <= 191
RECURSIVE IsUtf8(_)
IsUtf8(b) ==
    IF Len(b) = 0 THEN TRUE
    ELSE LET x == b[1]
             n == Len(b)
         IN  IF x < 128 THEN IsUtf8(Tail(b))
             ELSE IF x >= 194 /\ x <= 223
             THEN n >= 2 /\ IsCont(b[2]) /\ IsUtf8(SubSeq(b, 3, n))
             ELSE IF x >= 224 /\ x <= 239
             THEN /\ n >= 3 /\ IsCont(b[2]) /\ IsCont(b[3])
                  /\ (x = 224 => b[2] >= 160)
                  /\ (x = 237 => b[2] <= 159)
                  /\ IsUtf8(SubSeq(b, 4, n))
             ELSE IF x >= 240 /\ x <= 244
             THEN /\ n >= 4 /\ IsCont(b[2]) /\ IsCont(b[3]) /\ IsCont(b[4])
                  /\ (x = 240 => b[2] >= 144)
                  /\ (x = 244 => b[2] <= 143)
                  /\ IsUtf8(SubSeq(b, 5, n))
             ELSE FALSE

(***************************************************************************)
(* The encoder.                                                            *)
(***************************************************************************)
pack_pkg_ver(major, minor, update, draft) == <<major, minor, update, draft>>

\* pack_seg_hdr without the [:ICE_PKG_NAME_SIZE] slice
pack_seg_hdr_NoSlice(seg_type, fmt, seg_size, seg_id) ==
    PackLE32(seg_type) \o fmt \o PackLE32(seg_size) \o Ljust(seg_id, ICE_PKG_NAME_SIZE)

pack_seg_hdr(seg_type, fmt, seg_size, seg_id) ==
    LET seg_id_padded == Ljust(Slice(seg_id, 0, ICE_PKG_NAME_SIZE), ICE_PKG_NAME_SIZE)
    IN  PackLE32(seg_type) \o fmt \o PackLE32(seg_size) \o seg_id_padded

build_metadata_segment ==
    LET pkg_ver  == pack_pkg_ver(1, 3, 0, 0)
        fmt      == pack_pkg_ver(1, 3, 0, 0)
        pkg_name == Ljust(Slice(PKG_NAME, 0, ICE_PKG_NAME_SIZE), ICE_PKG_NAME_SIZE)
        body     == pkg_ver \o PackLE32(0) \o pkg_name
        seg_size == 44 + Len(body)
        h        == pack_seg_hdr(SEGMENT_TYPE_METADATA, fmt, seg_size, SEG_ID_METADATA)
    IN  h \o body

\* build_ice_buf that never copies meta_sect into the buffer (line 109 lost)
build_ice_buf_NoMetaSect ==
    LET buf0 == Zeros(ICE_PKG_BUF_SIZE)
        buf1 == PackInto(buf0, 0, PackLE16(1) \o PackLE16(48))
    IN  PackInto(buf1, 4, PackLE32(ICE_SID_METADATA) \o PackLE16(12) \o PackLE16(36))

build_ice_buf ==
    LET buf0           == Zeros(ICE_PKG_BUF_SIZE)
        nsect          == 1
        data_offset    == 4 + 8 * nsect
        meta_sect_size == 36
        dend           == data_offset + meta_sect_size
        buf1           == PackInto(buf0, 0, PackLE16(nsect) \o PackLE16(dend))
        buf2           == PackInto(buf1, 4,
                              PackLE32(ICE_SID_METADATA) \o PackLE16(data_offset)
                                  \o PackLE16(meta_sect_size))
        mver           == pack_pkg_ver(1, 3, 0, 0)
        mname          == Ljust(Slice(PKG_NAME, 0, ICE_META_SECT_NAME_SIZE),
                                ICE_META_SECT_NAME_SIZE)
        meta_track_id  == PackLE32(0)
        meta_sect      == mver \o mname \o meta_track_id
    IN  PackInto(buf2, data_offset, meta_sect)

build_ice_segment ==
    LET fmt                == pack_pkg_ver(1, 3, 0, 0)
        device_table_count == PackLE32(0)
        nvm_table_count    == PackLE32(0)
        buf_count          == PackLE32(1)
        ice_buf            == build_ice_buf
        body               == device_table_count \o nvm_table_count \o buf_count \o ice_buf
        seg_size           == 44 + Len(body)
        h                  == pack_seg_hdr(SEGMENT_TYPE_ICE_E810, fmt, seg_size, SEG_ID_ICE)
    IN  h \o body

\* build_package with ice_offset = len(metadata_seg), the header size forgotten
build_package_OffsetSlip ==
    LET metadata_seg    == build_metadata_segment
        ice_seg         == build_ice_segment
        metadata_offset == 4 + 4 + 4 * 2
        ice_offset      == Len(metadata_seg)
        pkg_hdr         == pack_pkg_ver(1, 0, 0, 0) \o PackLE32(2)
                               \o PackLE32(metadata_offset) \o PackLE32(ice_offset)
    IN  pkg_hdr \o metadata_seg \o ice_seg

build_package ==
    LET metadata_seg    == build_metadata_segment
        ice_seg         == build_ice_segment
        pkg_hdr_size    == 4 + 4 + 4 * 2
        metadata_offset == pkg_hdr_size
        ice_offset      == metadata_offset + Len(metadata_seg)
        pkg_format_ver  == pack_pkg_ver(1, 0, 0, 0)
        pkg_hdr         == pkg_format_ver \o PackLE32(2) \o PackLE32(metadata_offset)
                               \o PackLE32(ice_offset)
    IN  pkg_hdr \o metadata_seg \o ice_seg

(***************************************************************************)
(* The validator.  One action per check of validate_package; a failed      *)
(* assert ends the call with AssertionError, a struct.unpack of a slice    *)
(* of the wrong length ends it with struct.error.                          *)
(***************************************************************************)
NoInt == -1

Raise(kind, msg, line) ==
    /\ outcome' = kind
    /\ failure' = msg
    /\ failLine' = line
    /\ pc' = "done"

Continue(next) ==
    /\ pc' = next
    /\ UNCHANGED result

\* lines 182-183
CheckFormatVersion ==
    /\ pc = "L182"
    /\ LET b == Slice(data, 0, 4)
       IN  IF ~CanUnpack(b, 4)
           THEN Raise("struct.error", "", 182) /\ UNCHANGED header
           ELSE /\ fmt_ver' = b
                /\ UNCHANGED <<seg_count, meta_off, ice_off>>
                /\ IF b = <<1, 0, 0, 0>>
                   THEN Continue("L186")
                   ELSE Raise("AssertionError", "Bad format version", 183)
    /\ UNCHANGED <<data, segs, bufhdr, meta, direct>>

\* lines 186-187
CheckSegCount ==
    /\ pc = "L186"
    /\ LET b == Slice(data, 4, 8)
       IN  IF ~CanUnpack(b, 4)
           THEN Raise("struct.error", "", 186) /\ UNCHANGED header
           ELSE /\ seg_count' = UnpackLE32(b)
                /\ UNCHANGED <<fmt_ver, meta_off, ice_off>>
                /\ IF UnpackLE32(b) = 2
                   THEN Continue("L190")
                   ELSE Raise("AssertionError", "Bad segment count", 187)
    /\ UNCHANGED <<data, segs, bufhdr, meta, direct>>

\* lines 190-191
ReadSegOffsets ==
    /\ pc = "L190"
    /\ LET b1 == Slice(data, 8, 12)
           b2 == Slice(data, 12, 16)
       IN  IF ~CanUnpack(b1, 4)
           THEN Raise("struct.error", "", 190) /\ UNCHANGED header
           ELSE /\ meta_off' = UnpackLE32(b1)
                /\ UNCHANGED <<fmt_ver, seg_count>>
                /\ IF ~CanUnpack(b2, 4)
                   THEN Raise("struct.error", "", 191) /\ UNCHANGED ice_off
                   ELSE ice_off' = UnpackLE32(b2) /\ Continue("L194")
    /\ UNCHANGED <<data, segs, bufhdr, meta, direct>>

\* lines 194-195
CheckMetaSegType ==
    /\ pc = "L194"
    /\ LET b == Slice(data, meta_off, meta_off + 4)
       IN  IF ~CanUnpack(b, 4)
           THEN Raise("struct.error", "", 194) /\ UNCHANGED segs
           ELSE /\ meta_seg_type' = UnpackLE32(b)
                /\ UNCHANGED <<meta_seg_size, ice_seg_type, ice_seg_size>>
                /\ IF UnpackLE32(b) = SEGMENT_TYPE_METADATA
                   THEN Continue("L197")
                   ELSE Raise("AssertionError", "Bad metadata seg type", 195)
    /\ UNCHANGED <<data, header, bufhdr, meta, direct>>

\* lines 197-198
CheckMetaSegSize ==
    /\ pc = "L197"
    /\ LET b == Slice(data, meta_off + 8, meta_off + 12)
       IN  IF ~CanUnpack(b, 4)
           THEN Raise("struct.error", "", 197) /\ UNCHANGED segs
           ELSE /\ meta_seg_size' = UnpackLE32(b)
                /\ UNCHANGED <<meta_seg_type, ice_seg_type, ice_seg_size>>
                /\ IF meta_off + UnpackLE32(b) <= Len(data)
                   THEN Continue("L201")
                   ELSE Raise("AssertionError", "Metadata segment exceeds package", 198)
    /\ UNCHANGED <<data, header, bufhdr, meta, direct>>

\* lines 201-202
CheckIceSegType ==
    /\ pc = "L201"
    /\ LET b == Slice(data, ice_off, ice_off + 4)
       IN  IF ~CanUnpack(b, 4)
           THEN Raise("struct.error", "", 201) /\ UNCHANGED segs
           ELSE /\ ice_seg_type' = UnpackLE32(b)
                /\ UNCHANGED <<meta_seg_type, meta_seg_size, ice_seg_size>>
                /\ IF UnpackLE32(b) = SEGMENT_TYPE_ICE_E810
                   THEN Continue("L204")
                   ELSE Raise("AssertionError", "Bad ICE seg type", 202)
    /\ UNCHANGED <<data, header, bufhdr, meta, direct>>

\* CheckIceSegSize with the bound off by one (<= len(data) + 1)
CheckIceSegSize_OffByOne ==
    /\ pc = "L204"
    /\ LET b == Slice(data, ice_off + 8, ice_off + 12)
       IN  IF ~CanUnpack(b, 4)
           THEN Raise("struct.error", "", 204) /\ UNCHANGED segs
           ELSE /\ ice_seg_size' = UnpackLE32(b)
                /\ UNCHANGED <<meta_seg_type, meta_seg_size, ice_seg_type>>
                /\ IF ice_off + UnpackLE32(b) <= Len(data) + 1
                   THEN Continue("L209")
                   ELSE Raise("AssertionError", "ICE segment exceeds package", 205)
    /\ UNCHANGED <<data, header, bufhdr, meta, direct>>

\* lines 204-205
CheckIceSegSize ==
    /\ pc = "L204"
    /\ LET b == Slice(data, ice_off + 8, ice_off + 12)
       IN  IF ~CanUnpack(b, 4)
           THEN Raise("struct.error", "", 204) /\ UNCHANGED segs
           ELSE /\ ice_seg_size' = UnpackLE32(b)
                /\ UNCHANGED <<meta_seg_type, meta_seg_size, ice_seg_type>>
                /\ IF ice_off + UnpackLE32(b) <= Len(data)
                   THEN Continue("L209")
                   ELSE Raise("AssertionError", "ICE segment exceeds package", 205)
    /\ UNCHANGED <<data, header, bufhdr, meta, direct>>

\* lines 209-214: the five reads of the buffer header, in source order; the
\* first slice of the wrong length raises and leaves the later locals unset
ReadBufHdr ==
    /\ pc = "L209"
    /\ LET bs == ice_off + 44 + 4 + 4 + 4
           b1 == Slice(data, bs, bs + 2)
           b2 == Slice(data, bs + 2, bs + 4)
           b3 == Slice(data, bs + 4, bs + 8)
           b4 == Slice(data, bs + 8, bs + 10)
           b5 == Slice(data, bs + 10, bs + 12)
           bad == IF ~CanUnpack(b1, 2) THEN 210
                  ELSE IF ~CanUnpack(b2, 2) THEN 211
                  ELSE IF ~CanUnpack(b3, 4) THEN 212
                  ELSE IF ~CanUnpack(b4, 2) THEN 213
                  ELSE IF ~CanUnpack(b5, 2) THEN 214
                  ELSE 0
       IN  /\ buf_start' = bs
           /\ section_count' = IF bad = 0 \/ bad > 210 THEN UnpackLE16(b1) ELSE section_count
           /\ data_end' = IF bad = 0 \/ bad > 211 THEN UnpackLE16(b2) ELSE data_end
           /\ sect_type' = IF bad = 0 \/ bad > 212 THEN UnpackLE32(b3) ELSE sect_type
           /\ sect_offset' = IF bad = 0 \/ bad > 213 THEN UnpackLE16(b4) ELSE sect_offset
           /\ sect_size' = IF bad = 0 THEN UnpackLE16(b5) ELSE sect_size
           /\ IF bad = 0 THEN Continue("L216") ELSE Raise("struct.error", "", bad)
    /\ UNCHANGED <<data, header, segs, meta, direct>>

\* CheckBufHdr without the assert on sect_size (line 220 lost)
CheckBufHdr_NoSizeCheck ==
    /\ pc = "L216"
    /\ IF section_count # 1
       THEN Raise("AssertionError", "Bad section count", 216)
       ELSE IF ~(12 <= data_end /\ data_end <= ICE_PKG_BUF_SIZE)
       THEN Raise("AssertionError", "Bad data_end", 217)
       ELSE IF sect_type # ICE_SID_METADATA
       THEN Raise("AssertionError", "Bad section type", 218)
       ELSE IF ~(sect_offset >= 12)
       THEN Raise("AssertionError", "Bad section offset", 219)
       ELSE IF ~(sect_offset + sect_size <= ICE_PKG_BUF_SIZE)
       THEN Raise("AssertionError", "Section exceeds buffer", 221)
       ELSE Continue("L224")
    /\ UNCHANGED <<data, header, segs, bufhdr, meta, direct>>

\* CheckBufHdr comparing only the low byte of sect_type
CheckBufHdr_LowByte ==
    /\ pc = "L216"
    /\ IF section_count # 1
       THEN Raise("AssertionError", "Bad section count", 216)
       ELSE IF ~(12 <= data_end /\ data_end <= ICE_PKG_BUF_SIZE)
       THEN Raise("AssertionError", "Bad data_end", 217)
       ELSE IF sect_type % 256 # ICE_SID_METADATA
       THEN Raise("AssertionError", "Bad section type", 218)
       ELSE IF ~(sect_offset >= 12)
       THEN Raise("AssertionError", "Bad section offset", 219)
       ELSE IF sect_size # 36
       THEN Raise("AssertionError", "Bad section size", 220)
       ELSE IF ~(sect_offset + sect_size <= ICE_PKG_BUF_SIZE)
       THEN Raise("AssertionError", "Section exceeds buffer", 221)
       ELSE Continue("L224")
    /\ UNCHANGED <<data, header, segs, bufhdr, meta, direct>>

\* lines 216-221: six asserts in source order
CheckBufHdr ==
    /\ pc = "L216"
    /\ IF section_count # 1
       THEN Raise("AssertionError", "Bad section count", 216)
       ELSE IF ~(12 <= data_end /\ data_end <= ICE_PKG_BUF_SIZE)
       THEN Raise("AssertionError", "Bad data_end", 217)
       ELSE IF sect_type # ICE_SID_METADATA
       THEN Raise("AssertionError", "Bad section type", 218)
       ELSE IF ~(sect_offset >= 12)
       THEN Raise("AssertionError", "Bad section offset", 219)
       ELSE IF sect_size # 36
       THEN Raise("AssertionError", "Bad section size", 220)
       ELSE IF ~(sect_offset + sect_size <= ICE_PKG_BUF_SIZE)
       THEN Raise("AssertionError", "Section exceeds buffer", 221)
       ELSE Continue("L224")
    /\ UNCHANGED <<data, header, segs, bufhdr, meta, direct>>

\* lines 224-226
CheckMetaVer ==
    /\ pc = "L224"
    /\ LET addr == buf_start + sect_offset
           b    == Slice(data, addr, addr + 4)
       IN  /\ meta_addr' = addr
           /\ UNCHANGED meta_name
           /\ IF ~CanUnpack(b, 4)
              THEN Raise("struct.error", "", 225) /\ UNCHANGED meta_ver
              ELSE /\ meta_ver' = b
                   /\ IF b = <<1, 3, 0, 0>>
                      THEN Continue("L228")
                      ELSE Raise("AssertionError", "Bad metadata version", 226)
    /\ UNCHANGED <<data, header, segs, bufhdr, direct>>

\* lines 228-230
CheckMetaName ==
    /\ pc = "L228"
    /\ LET b == Slice(data, meta_addr + 4, meta_addr + 4 + ICE_META_SECT_NAME_SIZE)
       IN  /\ meta_name' = b
           /\ UNCHANGED <<meta_addr, meta_ver>>
           /\ IF StartsWith(b, Slice(PKG_NAME, 0, ICE_META_SECT_NAME_SIZE))
              THEN Continue("L232")
              ELSE Raise("AssertionError", "Bad metadata name", 229)
    /\ UNCHANGED <<data, header, segs, bufhdr, direct>>

\* lines 232-239: the report; line 239 strips the bytes of b'\\x00' (a
\* backslash, "x" and "0") from the right of the name and decodes the rest
Report ==
    /\ pc = "L232"
    /\ IF IsUtf8(Rstrip(meta_name, {92, 120, 48}))
       THEN /\ outcome' = "accepted"
            /\ pc' = "done"
            /\ UNCHANGED <<failure, failLine>>
       ELSE Raise("UnicodeDecodeError", "", 239)
    /\ UNCHANGED <<data, header, segs, bufhdr, meta, direct>>

(***************************************************************************)
(* The buffers handed to validate_package.  main hands it the package it   *)
(* built; any other caller may hand it any bytes, modelled as that package *)
(* with up to MaxPatches fields overwritten and then cut to a length.      *)
(***************************************************************************)
MaxPatches == 1

\* positions of the fields in the layout the encoder writes
OffFormatVer   == 0
OffSegCount    == 4
OffMetaOff     == 8
OffIceOff      == 12
OffMetaSeg     == 16
OffIceSeg      == 100
OffBuf         == 156
OffSectType    == 160
OffSectOffset  == 164
OffSectSize    == 166
OffMetaSect    == 168
OffMetaName    == 172
OffTrackId     == 200

Patches ==
    << [off |-> OffFormatVer,      bytes |-> <<0>>],
       [off |-> OffFormatVer,      bytes |-> <<2>>],
       [off |-> OffFormatVer,      bytes |-> <<255>>],
       [off |-> OffFormatVer + 1,  bytes |-> <<1>>],
       [off |-> OffSegCount,       bytes |-> PackLE32(1)],
       [off |-> OffSegCount,       bytes |-> PackLE32(3)],
       [off |-> OffSegCount,       bytes |-> PackLE32(258)],
       [off |-> OffMetaOff,        bytes |-> PackLE32(0)],
       [off |-> OffMetaOff,        bytes |-> PackLE32(172)],
       [off |-> OffMetaOff,        bytes |-> PackLE32(4250)],
       [off |-> OffIceOff,         bytes |-> PackLE32(16)],
       [off |-> OffIceOff,         bytes |-> PackLE32(4252)],
       [off |-> OffMetaSeg,        bytes |-> PackLE32(2)],
       [off |-> OffMetaSeg,        bytes |-> PackLE32(16)],
       [off |-> OffMetaSeg + 8,    bytes |-> PackLE32(0)],
       [off |-> OffMetaSeg + 8,    bytes |-> PackLE32(4236)],
       [off |-> OffMetaSeg + 8,    bytes |-> PackLE32(4237)],
       [off |-> OffMetaSeg + 8,    bytes |-> PackLE32(1073741824)],
       [off |-> OffIceSeg,         bytes |-> PackLE32(1)],
       [off |-> OffIceSeg,         bytes |-> PackLE32(272)],
       [off |-> OffIceSeg + 8,     bytes |-> PackLE32(0)],
       [off |-> OffIceSeg + 8,     bytes |-> PackLE32(12)],
       [off |-> OffIceSeg + 8,     bytes |-> PackLE32(4153)],
       [off |-> OffBuf,            bytes |-> PackLE16(0)],
       [off |-> OffBuf,            bytes |-> PackLE16(2)],
       [off |-> OffBuf,            bytes |-> PackLE16(257)],
       [off |-> OffBuf + 2,        bytes |-> PackLE16(11)],
       [off |-> OffBuf + 2,        bytes |-> PackLE16(12)],
       [off |-> OffBuf + 2,        bytes |-> PackLE16(4096)],
       [off |-> OffBuf + 2,        bytes |-> PackLE16(4097)],
       [off |-> OffSectType,       bytes |-> PackLE32(0)],
       [off |-> OffSectType,       bytes |-> PackLE32(2)],
       [off |-> OffSectType,       bytes |-> PackLE32(257)],
       [off |-> OffSectType,       bytes |-> PackLE32(16777217)],
       [off |-> OffSectOffset,     bytes |-> PackLE16(11)],
       [off |-> OffSectOffset,     bytes |-> PackLE16(13)],
       [off |-> OffSectOffset,     bytes |-> PackLE16(4060)],
       [off |-> OffSectOffset,     bytes |-> PackLE16(4061)],
       [off |-> OffSectSize,       bytes |-> PackLE16(35)],
       [off |-> OffSectSize,       bytes |-> PackLE16(37)],
       [off |-> OffMetaSect,       bytes |-> <<2>>],
       [off |-> OffMetaSect + 1,   bytes |-> <<0>>],
       [off |-> OffMetaSect + 3,   bytes |-> <<1>>],
       [off |-> OffMetaName,       bytes |-> <<88>>],
       [off |-> OffMetaName + 21,  bytes |-> <<0>>],
       [off |-> OffMetaName + 22,  bytes |-> <<88>>],
       [off |-> OffMetaName + 22,  bytes |-> <<255>>],
       [off |-> OffMetaName + 27,  bytes |-> <<48>>],
       [off |-> OffTrackId,        bytes |-> PackLE32(1)],
       \* the section moved 8 bytes up: entry (offset 20, size 36), 8 filler
       \* bytes, then the version and the name
       [off |-> OffSectOffset,
        bytes |-> PackLE16(20) \o PackLE16(36) \o <<9, 9, 9, 9, 9, 9, 9, 9>>
                      \o <<1, 3, 0, 0>> \o PKG_NAME] >>

\* the lengths a buffer is cut to; a length past the end leaves it whole
TruncLens ==
    {0, 4, 8, 12, 16, 20, 28, 100, 104, 112, 156, 158, 160, 164, 166, 168,
     172, 194, 204, 4251, 4252}

\* the strictly increasing index sequences of at most MaxPatches patches
PatchChoices ==
    {ps \in UNION {[1..m -> 1..Len(Patches)] : m \in 0..MaxPatches} :
        \A i \in 1..(Len(ps) - 1) : ps[i] < ps[i + 1]}

RECURSIVE ApplyPatches(_, _, _)
ApplyPatches(d, ps, k) ==
    IF k > Len(ps) THEN d
    ELSE ApplyPatches(PackInto(d, Patches[ps[k]].off, Patches[ps[k]].bytes), ps, k + 1)

Corrupt(d, ps, n) == Slice(ApplyPatches(d, ps, 1), 0, n)

NoArgs == [seg_type |-> 0, fmt_ver |-> <<>>, seg_size |-> 0, seg_id |-> <<>>]

InitLocals ==
    /\ fmt_ver = <<>> /\ seg_count = NoInt /\ meta_off = NoInt /\ ice_off = NoInt
    /\ meta_seg_type = NoInt /\ meta_seg_size = NoInt
    /\ ice_seg_type = NoInt /\ ice_seg_size = NoInt
    /\ buf_start = NoInt /\ section_count = NoInt /\ data_end = NoInt
    /\ sect_type = NoInt /\ sect_offset = NoInt /\ sect_size = NoInt
    /\ meta_addr = NoInt /\ meta_ver = <<>> /\ meta_name = <<>>
    /\ outcome = "none" /\ failure = "" /\ failLine = 0

Init ==
    /\ pc = "main"
    /\ data = <<>>
    /\ InitLocals
    /\ args = NoArgs
    /\ hdr = <<>>

\* main, line 248
MainBuild ==
    /\ pc = "main"
    /\ data' = build_package
    /\ pc' = "built"
    /\ UNCHANGED <<header, segs, bufhdr, meta, result, direct>>

\* main, line 249: the package as built is validated
MainValidate ==
    /\ pc = "built"
    /\ pc' = "L182"
    /\ UNCHANGED <<data, header, segs, bufhdr, meta, result, direct>>

\* validate_package called on a buffer that is not the encoder's
ExternalValidate ==
    /\ pc = "built"
    /\ \E ps \in PatchChoices, n \in TruncLens :
          data' = Corrupt(data, ps, n)
    /\ pc' = "L182"
    /\ UNCHANGED <<header, segs, bufhdr, meta, result, direct>>

Next ==
    \/ MainBuild
    \/ MainValidate
    \/ ExternalValidate
    \/ CheckFormatVersion
    \/ CheckSegCount
    \/ ReadSegOffsets
    \/ CheckMetaSegType
    \/ CheckMetaSegSize
    \/ CheckIceSegType
    \/ CheckIceSegSize
    \/ ReadBufHdr
    \/ CheckBufHdr
    \/ CheckMetaVer
    \/ CheckMetaName
    \/ Report

Spec == Init /\ [][Next]_vars

(***************************************************************************)
(* pack_seg_hdr called on its own, with names of every length up to        *)
(* MaxNameLen.                                                             *)
(***************************************************************************)
MaxNameLen == 34

\* names of length n: letters, bytes 0xFF, and bytes with NULs inside
NameLetters(n) == [i \in 1..n |-> 65 + (i % 26)]
NameHigh(n)    == [i \in 1..n |-> 255]
NameNuls(n)    == [i \in 1..n |-> IF i % 2 = 0 THEN 0 ELSE 200]
Names ==
    UNION {{NameLetters(n), NameHigh(n), NameNuls(n)} : n \in 0..MaxNameLen}
        \cup {PKG_NAME, SEG_ID_METADATA, SEG_ID_ICE}

SegTypes == {SEGMENT_TYPE_METADATA, SEGMENT_TYPE_ICE_E810, 2147483647}
SegSizes == {0, 84, 4152}
FmtVers  == {pack_pkg_ver(1, 3, 0, 0), pack_pkg_ver(255, 255, 255, 255)}

InitHdr ==
    /\ pc = "pack_seg_hdr"
    /\ data = <<>>
    /\ InitLocals
    /\ args \in [seg_type : SegTypes, fmt_ver : FmtVers, seg_size : SegSizes,
                 seg_id : Names]
    /\ hdr = <<>>

\* lines 45-48
PackSegHdr ==
    /\ pc = "pack_seg_hdr"
    /\ hdr' = pack_seg_hdr(args.seg_type, args.fmt_ver, args.seg_size, args.seg_id)
    /\ pc' = "returned"
    /\ UNCHANGED <<data, header, segs, bufhdr, meta, result, args>>

NextHdr == PackSegHdr

SpecHdr == InitHdr /\ [][NextHdr]_vars

(***************************************************************************)
(* The properties.  The fields of a buffer are decoded here from the bytes *)
(* themselves, not from the validator's locals.                            *)
(***************************************************************************)
HasBytes(d, off, n) == off >= 0 /\ off + n <= Len(d)
U32At(d, off) == UnpackLE32(SubSeq(d, off + 1, off + 4))
U16At(d, off) == UnpackLE16(SubSeq(d, off + 1, off + 2))
Done     == pc = "done"
Accepted == pc = "done" /\ outcome = "accepted"

\* C1: validate_package accepts the package build_package returns, with
\* segment_count 2, and the package is 16 + 84 + (44 + 12 + 4096) bytes long.
C1_RoundTrip ==
    /\ pc = "built" => Len(data) = 16 + 84 + (44 + 12 + 4096)
    /\ (Done /\ data = build_package) =>
           /\ outcome = "accepted"
           /\ seg_count = 2
           /\ U32At(data, 4) = 2
           /\ Len(data) = 4252

C1_Witness == Done /\ data = build_package /\ outcome = "accepted" /\ Len(data) = 4252

\* C2: validate_package ends, for every input, in acceptance or in a
\* validation failure (a failed assert), never in an unhandled decode error.
C2_Total == Done => outcome \in {"accepted", "AssertionError"}

\* C3: every accepted buffer satisfies the structural invariants: format
\* version 1.0.0.0, two segments, both segments inside the buffer, types 1 and
\* 0x10, one section, 12 <= data_end <= 4096, section type 1, offset >= 12,
\* size 36, section end <= 4096, section version 1.3.0.0.
C3_Soundness ==
    Accepted =>
        /\ HasBytes(data, 0, 16)
        /\ SubSeq(data, 1, 4) = <<1, 0, 0, 0>>
        /\ U32At(data, 4) = 2
        /\ LET mo == U32At(data, 8)
               io == U32At(data, 12)
               bs == io + 56
           IN  /\ HasBytes(data, mo, 12) /\ HasBytes(data, io, 12)
               /\ mo + U32At(data, mo + 8) <= Len(data)
               /\ io + U32At(data, io + 8) <= Len(data)
               /\ U32At(data, mo) = 1
               /\ U32At(data, io) = 16
               /\ HasBytes(data, bs, 12)
               /\ U16At(data, bs) = 1
               /\ 12 <= U16At(data, bs + 2) /\ U16At(data, bs + 2) <= 4096
               /\ U32At(data, bs + 4) = 1
               /\ U16At(data, bs + 8) >= 12
               /\ U16At(data, bs + 10) = 36
               /\ U16At(data, bs + 8) + U16At(data, bs + 10) <= 4096
               /\ HasBytes(data, bs + U16At(data, bs + 8), 4)
               /\ SubSeq(data, bs + U16At(data, bs + 8) + 1, bs + U16At(data, bs + 8) + 4)
                      = <<1, 3, 0, 0>>

\* an accepted buffer that is not the encoder's package
C3_Witness == Accepted /\ data # build_package /\ sect_offset = 20

\* C4: in every accepted buffer the 28-byte name field of the metadata
\* section, its trailing NULs removed, equals PKG_NAME cut to 28 bytes.
C4_NameEquals ==
    Accepted =>
        LET at == U32At(data, 12) + 56 + U16At(data, U32At(data, 12) + 56 + 8) + 4
        IN  Rstrip(Slice(data, at, at + 28), {0}) = Slice(PKG_NAME, 0, 28)

\* C5: a failure is reported only for the first violated invariant in the
\* order: 1 format version, 2 segment count, 3 segment bounds, 4 segment
\* types, 5 buffer internals, 6 section internals, 7 metadata version and name.
ReportedStage ==
    CASE failLine \in {182, 183} -> 1
      [] failLine \in {186, 187} -> 2
      [] failLine \in {190, 191, 197, 198, 204, 205} -> 3
      [] failLine \in {194, 195, 201, 202} -> 4
      [] failLine \in {210, 211, 216, 217} -> 5
      [] failLine \in {212, 213, 214, 218, 219, 220, 221} -> 6
      [] OTHER -> 7

SegInBounds(d, off) ==
    HasBytes(d, off, 12) /\ off + U32At(d, off + 8) <= Len(d)

StageHolds(d, s) ==
    CASE s = 1 -> HasBytes(d, 0, 4) /\ SubSeq(d, 1, 4) = <<1, 0, 0, 0>>
      [] s = 2 -> HasBytes(d, 4, 4) /\ U32At(d, 4) = 2
      [] s = 3 -> /\ HasBytes(d, 8, 8)
                  /\ SegInBounds(d, U32At(d, 8))
                  /\ SegInBounds(d, U32At(d, 12))
      [] s = 4 -> /\ HasBytes(d, 8, 8)
                  /\ HasBytes(d, U32At(d, 8), 4) /\ U32At(d, U32At(d, 8)) = 1
                  /\ HasBytes(d, U32At(d, 12), 4) /\ U32At(d, U32At(d, 12)) = 16
      [] s = 5 -> /\ HasBytes(d, 8, 8)
                  /\ HasBytes(d, U32At(d, 12) + 56, 4)
                  /\ U16At(d, U32At(d, 12) + 56) = 1
                  /\ 12 <= U16At(d, U32At(d, 12) + 58)
                  /\ U16At(d, U32At(d, 12) + 58) <= 4096
      [] OTHER -> TRUE

C5_FailFastOrder ==
    (Done /\ outcome # "accepted") =>
        \A s \in 1..(ReportedStage - 1) : StageHolds(data, s)

\* C6: the package with its last byte removed (4251 bytes) is rejected with
\* the failure that the device segment exceeds the package.
C6_TruncatedRejected ==
    (Done /\ data = SubSeq(build_package, 1, Len(build_package) - 1)) =>
        /\ Len(data) = 4251
        /\ outcome = "AssertionError"
        /\ failure = "ICE segment exceeds package"
        /\ U32At(data, 12) + U32At(data, U32At(data, 12) + 8) > Len(data)

C6_Witness ==
    /\ Done /\ Len(data) = 4251
    /\ data = SubSeq(build_package, 1, 4251)
    /\ failLine = 205

\* C7: the package with only its format_version major byte changed from 1
\* fails with the format-version failure; the package with only the section
\* entry's section_type changed from 1 fails with the section-type failure,
\* after the header and segment checks have passed.
SameExcept(d, e, from, to) ==
    /\ Len(d) = Len(e)
    /\ SubSeq(d, 1, from) = SubSeq(e, 1, from)
    /\ SubSeq(d, to + 1, Len(d)) = SubSeq(e, to + 1, Len(e))

C7_FieldCorruption ==
    /\ (Done /\ SameExcept(data, build_package, 0, 1) /\ data[1] # 1) =>
           /\ outcome = "AssertionError"
           /\ failure = "Bad format version"
    /\ (Done /\ SameExcept(data, build_package, 160, 164) /\ U32At(data, 160) # 1) =>
           /\ outcome = "AssertionError"
           /\ failure = "Bad section type"
           /\ fmt_ver = <<1, 0, 0, 0>> /\ seg_count = 2
           /\ meta_seg_type = 1 /\ ice_seg_type = 16
           /\ meta_off + meta_seg_size <= Len(data)
           /\ ice_off + ice_seg_size <= Len(data)

C7_Witness ==
    /\ Done /\ SameExcept(data, build_package, 160, 164)
    /\ U32At(data, 160) = 257
    /\ failure = "Bad section type"

\* C8: in the built package segment_offsets are 16 and 100, the segment_size
\* fields are 84 and 4152, and the two segments tile the package.
C8_OffsetArithmetic ==
    pc = "built" =>
        LET o0 == U32At(data, 8)
            o1 == U32At(data, 12)
            s0 == U32At(data, o0 + 8)
            s1 == U32At(data, o1 + 8)
        IN  /\ o0 = 16 /\ o1 = 100
            /\ s0 = 44 + 40 /\ s1 = 44 + 12 + 4096
            /\ o1 = o0 + s0
            /\ o1 + s1 = Len(data)

C8_Witness == pc = "built" /\ data = build_package /\ U32At(data, 12) = 100

\* C9: for a name of any length pack_seg_hdr returns 44 bytes; the last 32
\* are the first 32 bytes of the name, NUL-padded; the first 12 hold the
\* type, the format version and the size whatever the name is.
C9_NameTruncation ==
    pc = "returned" =>
        /\ Len(hdr) = 44
        /\ \A i \in 1..32 :
               hdr[12 + i] = IF i <= Len(args.seg_id) THEN args.seg_id[i] ELSE 0
        /\ U32At(hdr, 0) = args.seg_type
        /\ SubSeq(hdr, 5, 8) = args.fmt_ver
        /\ U32At(hdr, 8) = args.seg_size

C9_Witness ==
    /\ pc = "returned" /\ Len(args.seg_id) > 32 /\ Len(hdr) = 44
    /\ hdr[44] = args.seg_id[32]

\* C10: in every accepted buffer the 36 bytes of the decoded section lie
\* inside the device segment's declared extent and inside the buffer.
C10_SectionContained ==
    Accepted =>
        LET io   == U32At(data, 12)
            isz  == U32At(data, io + 8)
            send == io + 56 + U16At(data, io + 56 + 8) + 36
        IN  send <= io + isz /\ send <= Len(data)

====
